---- MODULE Spec2Model ----
(***************************************************************************)
(* Model of the Retell voice-agent scheduling backend                      *)
(* (Retell-API/retellAPI/retellAPI/views/API.py and models.py).            *)
(*                                                                         *)
(* Time is counted in ticks of 15 minutes.  A datetime is the integer      *)
(* date * DayLen + tick-of-day; an ISO string is the pair <<date, tick>>.  *)
(* Rows of a table are kept in a sequence; the primary key of a row is its *)
(* index.  A missing or empty (falsy) argument is the empty string, the    *)
(* empty tuple or the id 0.                                                *)
(***************************************************************************)
EXTENDS Integers, Sequences, FiniteSets, TLC

VARIABLES
    workingHours,   \* DoctorWorkingHours table (never written by the views)
    patients,       \* Patient table
    appointments,   \* Appointment table
    auditLog,       \* AuditLog table
    workers,        \* concurrent request handlers: position and locals
    slotCase,       \* one application of a helper function: inputs and output
    response        \* what API.post answered to the last request

vars == <<workingHours, patients, appointments, auditLog, workers, slotCase, response>>

store == <<patients, appointments, auditLog>>

---------------------------------------------------------------------------
(* Bounds of the model *)

NumDates == 2          \* calendar dates 0 .. NumDates-1
DayLen == 4            \* ticks per calendar date
MaxDuration == 1       \* largest durationMinutes argument, in ticks
MaxAppts == 2          \* rows of the Appointment table
MaxAudit == 2          \* rows of the AuditLog table
NumWorkers == 2        \* concurrent request handlers

(* args.get("durationMinutes", 30): 30 minutes are two ticks *)
DefaultDuration == 2

MinDuration == 0 - 1

Dates == 0 .. (NumDates - 1)
Ticks == 0 .. (DayLen - 1)
Times == 0 .. (NumDates * DayLen - 1)
Workers == 1 .. NumWorkers

---------------------------------------------------------------------------
(* models.py: the tables *)

(* Doctor rows as create_dummy_data makes them (the first two) *)
Doctor == <<[name |-> "Dr Sarah", specialty |-> "General"],
            [name |-> "Dr Ali", specialty |-> "Cardiology"]>>

DoctorIds == 1 .. Len(Doctor)

WorkingRow(d, wd, s, e) == [doctor |-> d, dayOfWeek |-> wd, startTime |-> s, endTime |-> e]

(* DoctorWorkingHours configurations: one window per day for every doctor, *)
(* as the seed makes them; and rows stored unsorted that overlap, with days *)
(* on which a doctor does not work                                          *)
WorkingConfigs ==
    { << WorkingRow(1, 0, 0, 3), WorkingRow(1, 1, 0, 3),
         WorkingRow(2, 0, 0, 3), WorkingRow(2, 1, 0, 3) >>,
      << WorkingRow(1, 0, 1, 4), WorkingRow(1, 0, 0, 2), WorkingRow(2, 1, 1, 3) >> }

PatientRow(n, p) == [patientName |-> n, patientPhone |-> p]

AppointmentRow(p, d, n, ph, s, e, st) ==
    [patient |-> p, doctor |-> d, patientName |-> n, patientPhone |-> ph,
     startTime |-> s, endTime |-> e, status |-> st]

AuditRow(t, a, p, d) == [actionType |-> t, appointment |-> a, patient |-> p, doctor |-> d]

AppointmentIds == 1 .. Len(appointments)

---------------------------------------------------------------------------
(* Datetimes *)

(* datetime.fromisoformat: a string that is no ISO datetime raises ValueError *)
parseIsoDatetime(dtStr) ==
    IF Len(dtStr) = 2
    THEN [ok |-> TRUE, value |-> dtStr[1] * DayLen + dtStr[2]]
    ELSE [ok |-> FALSE, value |-> 0]

(* datetime.isoformat *)
isoformat(t) == <<t \div DayLen, t % DayLen>>

(* datetime.date *)
dateOf(t) == t \div DayLen

(* date.weekday: date 0 is a Monday *)
weekday(dateObj) == dateObj % 7

(* datetime.combine(dateObj, timeOfDay) *)
combine(dateObj, tod) == dateObj * DayLen + tod

(* int(durationMinutes), 30 on TypeError or ValueError; the argument is     *)
(* <<n>> for an integer and <<>> when it is missing or no integer           *)
toDuration(d) == IF Len(d) = 1 THEN d[1] ELSE DefaultDuration

---------------------------------------------------------------------------
(* views/API.py: helper functions *)

(* A conflict test that treats touching intervals as overlapping *)
conflictQsClosed(doctor, startTime, endTime) ==
    { a \in 1 .. Len(appointments) :
        /\ appointments[a].doctor = doctor
        /\ appointments[a].status = "BOOKED"
        /\ appointments[a].startTime <= endTime
        /\ appointments[a].endTime >= startTime }

(* A conflict test that looks only at rows starting inside the candidate *)
conflictQsStartInside(doctor, startTime, endTime) ==
    { a \in 1 .. Len(appointments) :
        /\ appointments[a].doctor = doctor
        /\ appointments[a].status = "BOOKED"
        /\ appointments[a].startTime < endTime
        /\ appointments[a].startTime >= startTime }

(* A conflict test that counts rows of every status *)
conflictQsAnyStatus(doctor, startTime, endTime) ==
    { a \in 1 .. Len(appointments) :
        /\ appointments[a].doctor = doctor
        /\ appointments[a].startTime < endTime
        /\ appointments[a].endTime > startTime }

(* The queryset of doctorHasConflict before .exclude(): rows of the doctor, *)
(* BOOKED, with startTime < endTime argument and endTime > startTime        *)
(* argument (startTime__lt, endTime__gt)                                    *)
conflictQs(doctor, startTime, endTime) ==
    { a \in AppointmentIds :
        /\ appointments[a].doctor = doctor
        /\ appointments[a].status = "BOOKED"
        /\ appointments[a].startTime < endTime
        /\ appointments[a].endTime > startTime }

(* A conflict test that forgets to exclude the appointment being moved *)
doctorHasConflictNoExclude(doctor, startTime, endTime, ignoreAppointmentId) ==
    conflictQs(doctor, startTime, endTime) /= {}

(* ignoreAppointmentId = 0 stands for None *)
doctorHasConflict(doctor, startTime, endTime, ignoreAppointmentId) ==
    LET qs == conflictQs(doctor, startTime, endTime)
        qsExcl == IF ignoreAppointmentId /= 0
                  THEN { a \in qs : a /= ignoreAppointmentId }
                  ELSE qs
    IN  qsExcl /= {}

Slot(s, e) == [startTime |-> isoformat(s), endTime |-> isoformat(e)]

(* One gap of buildFreeSlots: a slot at its start when the gap is long enough *)
gapSlot(current, gap, durationMinutes) ==
    IF gap >= durationMinutes
    THEN << Slot(current, current + durationMinutes) >>
    ELSE << >>

(* The for loop of buildFreeSlots from busy interval i on.  Line 51 reads   *)
(* the name busStart, which is bound nowhere: evaluating it raises          *)
(* NameError, so an iteration with busyStart > current ends the call.       *)
RECURSIVE sweepBusy(_, _, _, _, _)
sweepBusy(busyIntervals, i, current, freeSlots, durationMinutes) ==
    IF i > Len(busyIntervals)
    THEN [raised |-> FALSE, current |-> current, freeSlots |-> freeSlots]
    ELSE LET busyStart == busyIntervals[i][1]
             busyEnd == busyIntervals[i][2]
         IN  IF busyStart > current
             THEN [raised |-> TRUE, current |-> current, freeSlots |-> freeSlots]
             ELSE sweepBusy(busyIntervals, i + 1,
                            IF busyEnd > current THEN busyEnd ELSE current,
                            freeSlots, durationMinutes)

(* Result: raised (NameError left the function) or the list freeSlots *)
buildFreeSlots(dayStart, dayEnd, busyIntervals, durationMinutes) ==
    LET swept == sweepBusy(busyIntervals, 1, dayStart, << >>, durationMinutes)
        current == swept.current
    IN  IF swept.raised
        THEN [raised |-> TRUE, freeSlots |-> << >>]
        ELSE [raised |-> FALSE,
              freeSlots |-> IF dayEnd > current
                            THEN swept.freeSlots \o gapSlot(current, dayEnd - current, durationMinutes)
                            ELSE swept.freeSlots]

(* f"UNKNOWN-{patientName}" *)
unknownPhone(patientName) == "UNKNOWN-" \o patientName

patientIdsByPhone(pats, phone) == { i \in 1 .. Len(pats) : pats[i].patientPhone = phone }

(* A lookup by phone that leaves the stored name as it is *)
getOrCreatePatientKeepName(pats, patientName, patientPhone) ==
    LET phone == IF patientPhone = "" THEN "UNKNOWN-" \o patientName ELSE patientPhone
        found == { i \in 1 .. Len(pats) : pats[i].patientPhone = phone }
    IN  IF found = {}
        THEN [raised |-> FALSE,
              patients |-> Append(pats, PatientRow(patientName, phone)),
              id |-> Len(pats) + 1]
        ELSE [raised |-> patientPhone = "", patients |-> pats,
              id |-> IF patientPhone = "" THEN 0 ELSE CHOOSE i \in found : TRUE]

(* Result: the Patient table afterwards and the patient's id, or raised     *)
(* (IntegrityError: patientPhone is unique) with the table as it was        *)
getOrCreatePatient(pats, patientName, patientPhone) ==
    IF patientPhone = ""
    THEN IF patientIdsByPhone(pats, unknownPhone(patientName)) /= {}
         THEN [raised |-> TRUE, patients |-> pats, id |-> 0]
         ELSE [raised |-> FALSE,
               patients |-> Append(pats, PatientRow(patientName, unknownPhone(patientName))),
               id |-> Len(pats) + 1]
    ELSE LET found == patientIdsByPhone(pats, patientPhone)
         IN  IF found = {}
             THEN [raised |-> FALSE,
                   patients |-> Append(pats, PatientRow(patientName, patientPhone)),
                   id |-> Len(pats) + 1]
             ELSE LET id == CHOOSE i \in found : TRUE
                  IN  [raised |-> FALSE,
                       patients |-> IF pats[id].patientName /= patientName
                                    THEN [pats EXCEPT ![id].patientName = patientName]
                                    ELSE pats,
                       id |-> id]

(* QuerySet.first(): the row with the lowest primary key, 0 for None *)
first(ids) == IF ids = {} THEN 0 ELSE CHOOSE i \in ids : \A j \in ids : i <= j

(* pickDoctor over a Doctor table given as a sequence of rows *)
pickDoctorIn(doctors, doctorName, specialty) ==
    LET ids == 1 .. Len(doctors)
        byBoth == { d \in ids : doctors[d].name = doctorName /\ doctors[d].specialty = specialty }
        byName == { d \in ids : doctors[d].name = doctorName }
        bySpecialty == { d \in ids : doctors[d].specialty = specialty }
        named == IF specialty /= "" THEN first(byBoth) ELSE first(byName)
    IN  IF doctorName /= "" /\ named /= 0
        THEN named
        ELSE IF specialty /= "" THEN first(bySpecialty) ELSE 0

pickDoctor(doctorName, specialty) == pickDoctorIn(Doctor, doctorName, specialty)

(* The working intervals of the doctor on the date, in storage order; the  *)
(* empty list stands for None as well (callers test "not workingIntervals") *)
getWorkingWindowForDoctor(doctor, dateObj) ==
    LET rows == SelectSeq(workingHours,
                          LAMBDA r : r.doctor = doctor /\ r.dayOfWeek = weekday(dateObj))
    IN  [ i \in 1 .. Len(rows) |->
            << combine(dateObj, rows[i].startTime), combine(dateObj, rows[i].endTime) >> ]

(* A working-hours test that looks at the start of the request only *)
insideWorkingTimeStartOnly(workingIntervals, startTime, endTime) ==
    \E i \in 1 .. Len(workingIntervals) :
        startTime >= workingIntervals[i][1] /\ startTime < workingIntervals[i][2]

(* The loop "for dayStart, dayEnd in workingIntervals" of the handlers *)
insideWorkingTime(workingIntervals, startTime, endTime) ==
    \E i \in 1 .. Len(workingIntervals) :
        startTime >= workingIntervals[i][1] /\ endTime <= workingIntervals[i][2]

---------------------------------------------------------------------------
(* Requests: the "arguments" object of a call *)

PatientNames == {"", "Ann"}
PatientPhones == {"555"}
(* doctorName and specialty: by name, by name and specialty, and a          *)
(* specialty no doctor has                                                  *)
DoctorQueries == { << "Dr Sarah", "" >>, << "Dr Ali", "Cardiology" >>,
                   << "", "Dermatology" >> }
DateTimeStrings == { << >>, << 0 >> } \cup { isoformat(t) : t \in Times }
DateStrings == { << >>, << 0 >> } \cup { << d, 0 >> : d \in Dates }
DurationArgs == { << >> } \cup { << n >> : n \in MinDuration .. MaxDuration }
IdArgs == 0 .. (MaxAppts + 1)

BookRequest(n, ph, q, st, dur) ==
    [patientName |-> n, patientPhone |-> ph, doctorName |-> q[1], specialty |-> q[2],
     startTime |-> st, durationMinutes |-> dur]

BookArgs ==
    { BookRequest(n, ph, q, st, dur) :
        n \in PatientNames, ph \in PatientPhones, q \in DoctorQueries,
        st \in DateTimeStrings, dur \in DurationArgs }

CancelArgs == [appointmentId : IdArgs]

RescheduleArgs ==
    [appointmentId : IdArgs, newStartTime : DateTimeStrings, durationMinutes : DurationArgs]

SlotsRequest(q, date, dur) ==
    [doctorName |-> q[1], specialty |-> q[2], date |-> date, durationMinutes |-> dur]

SlotsArgs ==
    { SlotsRequest(q, date, dur) :
        q \in DoctorQueries, date \in DateStrings, dur \in DurationArgs }

(* What a handler has decided when its checks are done: result is "ok"     *)
(* (it goes on to write and returns success: True), "already" (success:    *)
(* True, already cancelled), the kind of the error it returns (success:    *)
(* False) or "raised" (an exception leaves the handler: no result dict).   *)
Checked(result, id, doctor, startTime, endTime) ==
    [result |-> result, appointmentId |-> id, doctor |-> doctor,
     startTime |-> startTime, endTime |-> endTime]

Rejected(result) == Checked(result, 0, 0, 0, 0)

---------------------------------------------------------------------------
(* views/API.py: what the handlers decide before they write *)

(* bookAppointmentLogic up to the conflict check *)
bookChecks(args) ==
    IF args.patientName = "" \/ args.startTime = << >>
    THEN Rejected("missing")
    ELSE LET parsed == parseIsoDatetime(args.startTime)
             startTime == parsed.value
             endTime == startTime + toDuration(args.durationMinutes)
             doctor == pickDoctor(args.doctorName, args.specialty)
             workingIntervals == getWorkingWindowForDoctor(doctor, dateOf(startTime))
         IN  IF ~parsed.ok THEN Rejected("invalidDatetime")
             ELSE IF doctor = 0 THEN Rejected("noDoctor")
             ELSE IF Len(workingIntervals) = 0 THEN Rejected("notWorking")
             ELSE IF ~insideWorkingTime(workingIntervals, startTime, endTime)
                  THEN Rejected("outsideHours")
             ELSE IF doctorHasConflict(doctor, startTime, endTime, 0)
                  THEN Rejected("conflict")
             ELSE Checked("ok", 0, doctor, startTime, endTime)

(* A cancel without the test for an appointment that is CANCELLED already *)
cancelChecksNoAlready(args) ==
    IF args.appointmentId = 0 THEN Rejected("missing")
    ELSE IF args.appointmentId \notin 1 .. Len(appointments) THEN Rejected("notFound")
    ELSE Checked("ok", args.appointmentId, 0, 0, 0)

(* cancelAppointmentLogic up to the status test *)
cancelChecks(args) ==
    IF args.appointmentId = 0 THEN Rejected("missing")
    ELSE IF args.appointmentId \notin AppointmentIds THEN Rejected("notFound")
    ELSE IF appointments[args.appointmentId].status = "CANCELLED"
         THEN Checked("already", args.appointmentId, 0, 0, 0)
    ELSE Checked("ok", args.appointmentId, 0, 0, 0)

(* A reschedule without the test for a CANCELLED appointment *)
rescheduleChecksOfAnyStatus(args, appointment) ==
    LET parsed == parseIsoDatetime(args.newStartTime)
        newStart == parsed.value
        newEnd == newStart + toDuration(args.durationMinutes)
        doctor == appointment.doctor
        workingIntervals == getWorkingWindowForDoctor(doctor, dateOf(newStart))
    IN  IF ~parsed.ok THEN Rejected("invalidDatetime")
        ELSE IF Len(workingIntervals) = 0 THEN Rejected("notWorking")
        ELSE IF ~insideWorkingTime(workingIntervals, newStart, newEnd)
             THEN Rejected("outsideHours")
        ELSE IF doctorHasConflict(doctor, newStart, newEnd, args.appointmentId)
             THEN Rejected("conflict")
        ELSE Checked("ok", args.appointmentId, doctor, newStart, newEnd)

(* rescheduleAppointmentLogic up to the conflict check, for the row it read *)
rescheduleChecksOf(args, appointment) ==
    LET parsed == parseIsoDatetime(args.newStartTime)
        newStart == parsed.value
        newEnd == newStart + toDuration(args.durationMinutes)
        doctor == appointment.doctor
        workingIntervals == getWorkingWindowForDoctor(doctor, dateOf(newStart))
    IN  IF ~parsed.ok THEN Rejected("invalidDatetime")
        ELSE IF appointment.status = "CANCELLED" THEN Rejected("cancelled")
        ELSE IF Len(workingIntervals) = 0 THEN Rejected("notWorking")
        ELSE IF ~insideWorkingTime(workingIntervals, newStart, newEnd)
             THEN Rejected("outsideHours")
        ELSE IF doctorHasConflict(doctor, newStart, newEnd, args.appointmentId)
             THEN Rejected("conflict")
        ELSE Checked("ok", args.appointmentId, doctor, newStart, newEnd)

rescheduleChecks(args) ==
    IF args.appointmentId = 0 \/ args.newStartTime = << >> THEN Rejected("missing")
    ELSE IF args.appointmentId \notin AppointmentIds THEN Rejected("notFound")
    ELSE rescheduleChecksOf(args, appointments[args.appointmentId])

(* .order_by("startTime") of the BOOKED rows of the doctor that start on    *)
(* the date; rows with equal startTime come in primary-key order            *)
RECURSIVE orderByStartTime(_)
orderByStartTime(ids) ==
    IF ids = {} THEN << >>
    ELSE LET a == CHOOSE x \in ids : \A y \in ids :
                      \/ appointments[x].startTime < appointments[y].startTime
                      \/ appointments[x].startTime = appointments[y].startTime /\ x <= y
         IN  << a >> \o orderByStartTime(ids \ {a})

busyAppointments(doctor, dateObj) ==
    orderByStartTime({ a \in AppointmentIds :
        /\ appointments[a].doctor = doctor
        /\ appointments[a].status = "BOOKED"
        /\ dateOf(appointments[a].startTime) = dateObj })

busyIntervalsOf(doctor, dateObj) ==
    LET busy == busyAppointments(doctor, dateObj)
    IN  [ i \in 1 .. Len(busy) |->
            << appointments[busy[i]].startTime, appointments[busy[i]].endTime >> ]

(* slots.extend(buildFreeSlots(...)) for the working intervals from i on *)
RECURSIVE extendSlots(_, _, _, _)
extendSlots(workingIntervals, i, busyIntervals, durationMinutes) ==
    IF i > Len(workingIntervals)
    THEN [raised |-> FALSE, slots |-> << >>]
    ELSE LET one == buildFreeSlots(workingIntervals[i][1], workingIntervals[i][2],
                                   busyIntervals, durationMinutes)
             rest == extendSlots(workingIntervals, i + 1, busyIntervals, durationMinutes)
         IN  IF one.raised \/ rest.raised
             THEN [raised |-> TRUE, slots |-> << >>]
             ELSE [raised |-> FALSE, slots |-> one.freeSlots \o rest.slots]

(* getAvailableSlotsLogic up to the audit entry *)
slotsChecks(args) ==
    IF args.date = << >> THEN [result |-> "missing", doctor |-> 0, slots |-> << >>]
    ELSE IF Len(args.date) /= 2 THEN [result |-> "invalidDate", doctor |-> 0, slots |-> << >>]
    ELSE LET dateObj == args.date[1]
             durationMinutes == toDuration(args.durationMinutes)
             doctor == pickDoctor(args.doctorName, args.specialty)
             workingIntervals == getWorkingWindowForDoctor(doctor, dateObj)
             built == extendSlots(workingIntervals, 1,
                                  busyIntervalsOf(doctor, dateObj), durationMinutes)
         IN  IF doctor = 0 THEN [result |-> "noDoctor", doctor |-> 0, slots |-> << >>]
             ELSE IF Len(workingIntervals) = 0
                  THEN [result |-> "notWorking", doctor |-> 0, slots |-> << >>]
             ELSE IF built.raised THEN [result |-> "raised", doctor |-> doctor, slots |-> << >>]
             ELSE [result |-> "ok", doctor |-> doctor, slots |-> built.slots]

---------------------------------------------------------------------------
(* Initial state: the store as create_dummy_data leaves it (one demo        *)
(* patient, one demo appointment of 30 minutes that starts at any time of   *)
(* the first date, no audit entry), with the status an administrator may   *)
(* have given the demo appointment; or a store with no appointment yet      *)

SeedStatuses == {"BOOKED", "COMPLETED"}

SeedAppointments ==
    { << >> } \cup
    { << AppointmentRow(1, d, "Ann", "555", s, s + DefaultDuration, st) >> :
        d \in {1}, s \in Ticks, st \in SeedStatuses }

IdleWorker ==
    [pc |-> "idle", checked |-> Rejected("none"), patientName |-> "", patientPhone |-> "",
     patient |-> 0]

NoCase == [dayStart |-> 0, dayEnd |-> 0, busyIntervals |-> << >>, durationMinutes |-> 0,
           done |-> FALSE, out |-> [raised |-> FALSE, freeSlots |-> << >>]]

(* No request answered yet *)
NoResponse ==
    [functionName |-> "", kind |-> "none", success |-> FALSE, httpStatus |-> 0,
     appointmentId |-> 0]

InitStore ==
    /\ workingHours \in WorkingConfigs
    /\ patients = << PatientRow("Ann", "555") >>
    /\ appointments \in SeedAppointments
    /\ auditLog = << >>

Init ==
    /\ InitStore
    /\ workers = [w \in Workers |-> IdleWorker]
    /\ slotCase = NoCase
    /\ response = NoResponse

---------------------------------------------------------------------------
(* The four handlers, each run from its first line to its return with no    *)
(* other request in between.  A request that is rejected, or that raises    *)
(* before its first write, leaves every table as it was.  auditFails: the   *)
(* INSERT of the audit entry raises (a failure of the persistence layer).   *)
(* Outside transaction.atomic() a write is committed as soon as it is made. *)

(* A book that looks the patient up, creating or renaming the row, before   *)
(* it runs its checks                                                       *)
bookAppointmentLogicPatientFirst(args, auditFails) ==
    LET c == bookChecks(args)
        got == getOrCreatePatient(patients, args.patientName, args.patientPhone)
        patient == got.patients[got.id]
        id == Len(appointments) + 1
    IN  /\ UNCHANGED <<workingHours, workers, slotCase>>
        /\ patients' = got.patients
        /\ IF c.result /= "ok" \/ got.raised
           THEN UNCHANGED <<appointments, auditLog>>
           ELSE /\ Len(appointments) < MaxAppts
                /\ Len(auditLog) < MaxAudit
                /\ appointments' = Append(appointments,
                       AppointmentRow(got.id, c.doctor, patient.patientName,
                                      patient.patientPhone, c.startTime,
                                      c.endTime, "BOOKED"))
                /\ auditLog' = Append(auditLog, AuditRow("BOOK", id, got.id, c.doctor))

bookAppointmentLogic(args, auditFails) ==
    LET c == bookChecks(args)
        got == getOrCreatePatient(patients, args.patientName, args.patientPhone)
        patient == got.patients[got.id]
        id == Len(appointments) + 1
    IN  /\ UNCHANGED <<workingHours, workers, slotCase>>
        /\ IF c.result /= "ok" \/ got.raised
           THEN UNCHANGED store
           ELSE /\ Len(appointments) < MaxAppts
                /\ Len(auditLog) < MaxAudit
                /\ patients' = got.patients
                /\ IF auditFails
                   THEN UNCHANGED <<appointments, auditLog>>
                   ELSE /\ appointments' = Append(appointments,
                               AppointmentRow(got.id, c.doctor, patient.patientName,
                                              patient.patientPhone, c.startTime,
                                              c.endTime, "BOOKED"))
                        /\ auditLog' = Append(auditLog, AuditRow("BOOK", id, got.id, c.doctor))

cancelAppointmentLogic(args, auditFails) ==
    LET c == cancelChecks(args)
        id == args.appointmentId
    IN  /\ UNCHANGED <<workingHours, workers, slotCase, patients>>
        /\ IF c.result /= "ok"
           THEN UNCHANGED <<appointments, auditLog>>
           ELSE /\ Len(auditLog) < MaxAudit
                /\ appointments' = [appointments EXCEPT ![id].status = "CANCELLED"]
                /\ IF auditFails
                   THEN UNCHANGED auditLog
                   ELSE auditLog' = Append(auditLog,
                            AuditRow("CANCEL", id, appointments[id].patient,
                                     appointments[id].doctor))

(* A reschedule that moves the appointment and leaves its status as it is *)
rescheduleAppointmentLogicKeepStatus(args, auditFails) ==
    LET c == rescheduleChecks(args)
        id == args.appointmentId
    IN  /\ UNCHANGED <<workingHours, workers, slotCase, patients>>
        /\ IF c.result /= "ok"
           THEN UNCHANGED <<appointments, auditLog>>
           ELSE /\ Len(auditLog) < MaxAudit
                /\ appointments' = [appointments EXCEPT ![id].startTime = c.startTime,
                                                        ![id].endTime = c.endTime]
                /\ auditLog' = Append(auditLog,
                       AuditRow("RESCHEDULE", id, appointments[id].patient, c.doctor))

rescheduleAppointmentLogic(args, auditFails) ==
    LET c == rescheduleChecks(args)
        id == args.appointmentId
    IN  /\ UNCHANGED <<workingHours, workers, slotCase, patients>>
        /\ IF c.result /= "ok"
           THEN UNCHANGED <<appointments, auditLog>>
           ELSE /\ Len(auditLog) < MaxAudit
                /\ appointments' = [appointments EXCEPT ![id].startTime = c.startTime,
                                                        ![id].endTime = c.endTime,
                                                        ![id].status = "BOOKED"]
                /\ IF auditFails
                   THEN UNCHANGED auditLog
                   ELSE auditLog' = Append(auditLog,
                            AuditRow("RESCHEDULE", id, appointments[id].patient, c.doctor))

(* A getAvailableSlots that writes no audit entry *)
getAvailableSlotsLogicNoAudit(args, auditFails) ==
    /\ Len(auditLog) < MaxAudit \/ slotsChecks(args).result /= "ok"
    /\ UNCHANGED <<workingHours, workers, slotCase, patients, appointments, auditLog>>

getAvailableSlotsLogic(args, auditFails) ==
    LET c == slotsChecks(args)
    IN  /\ UNCHANGED <<workingHours, workers, slotCase, patients, appointments>>
        /\ IF c.result /= "ok"
           THEN UNCHANGED auditLog
           ELSE /\ Len(auditLog) < MaxAudit
                /\ IF auditFails
                   THEN UNCHANGED auditLog
                   ELSE auditLog' = Append(auditLog, AuditRow("GET_SLOTS", 0, 0, c.doctor))

(* API.post: one request served at a time, the persistence layer sound *)
Book == (\E args \in BookArgs : bookAppointmentLogic(args, FALSE)) /\ UNCHANGED response
Cancel == (\E args \in CancelArgs : cancelAppointmentLogic(args, FALSE)) /\ UNCHANGED response
Reschedule ==
    (\E args \in RescheduleArgs : rescheduleAppointmentLogic(args, FALSE)) /\ UNCHANGED response
GetSlots == (\E args \in SlotsArgs : getAvailableSlotsLogic(args, FALSE)) /\ UNCHANGED response

Next == Book \/ Cancel \/ Reschedule \/ GetSlots

Spec == Init /\ [][Next]_vars

---------------------------------------------------------------------------
(* The same handlers when the INSERT of an audit entry may raise.  The      *)
(* requests are those of one patient for Dr Sarah on the first date.        *)

FaultTimes == { isoformat(t) : t \in Ticks }
FaultDurations == { << >>, << 1 >> }
FaultBookArgs ==
    { BookRequest("Ann", "555", << "Dr Sarah", "" >>, st, dur) :
        st \in FaultTimes, dur \in FaultDurations }
FaultCancelArgs == [appointmentId : 1 .. MaxAppts]
FaultRescheduleArgs ==
    [appointmentId : 1 .. MaxAppts, newStartTime : FaultTimes,
     durationMinutes : FaultDurations]
FaultSlotsArgs ==
    { SlotsRequest(<< "Dr Sarah", "" >>, << 0, 0 >>, dur) : dur \in FaultDurations }

BookFaulty ==
    /\ \E args \in FaultBookArgs : \E f \in BOOLEAN : bookAppointmentLogic(args, f)
    /\ UNCHANGED response
CancelFaulty ==
    /\ \E args \in FaultCancelArgs : \E f \in BOOLEAN : cancelAppointmentLogic(args, f)
    /\ UNCHANGED response
RescheduleFaulty ==
    /\ \E args \in FaultRescheduleArgs : \E f \in BOOLEAN : rescheduleAppointmentLogic(args, f)
    /\ UNCHANGED response
GetSlotsFaulty ==
    /\ \E args \in FaultSlotsArgs : \E f \in BOOLEAN : getAvailableSlotsLogic(args, f)
    /\ UNCHANGED response

NextFault == BookFaulty \/ CancelFaulty \/ RescheduleFaulty \/ GetSlotsFaulty

SpecFault == Init /\ [][NextFault]_vars

---------------------------------------------------------------------------
(* Requests served concurrently: bookAppointmentLogic in the steps between  *)
(* which the database is visible to the other handlers.  Lines 122-181 read *)
(* (the checks), line 183 writes the patient and commits, lines 185-201 are *)
(* the transaction that inserts the appointment and its audit entry.        *)

ConcBookArgs ==
    { BookRequest("Ann", "555", << "Dr Sarah", "" >>, st, dur) :
        st \in FaultTimes, dur \in FaultDurations }

BookBegin(w) ==
    /\ workers[w].pc = "idle"
    /\ \E args \in ConcBookArgs :
        LET c == bookChecks(args)
        IN  IF c.result /= "ok"
            THEN UNCHANGED workers
            ELSE workers' = [workers EXCEPT ![w] =
                     [pc |-> "patient", checked |-> c, patientName |-> args.patientName,
                      patientPhone |-> args.patientPhone, patient |-> 0]]
    /\ UNCHANGED <<workingHours, store, slotCase, response>>

BookPatient(w) ==
    /\ workers[w].pc = "patient"
    /\ LET got == getOrCreatePatient(patients, workers[w].patientName, workers[w].patientPhone)
       IN  IF got.raised
           THEN /\ workers' = [workers EXCEPT ![w] = IdleWorker]
                /\ UNCHANGED patients
           ELSE /\ patients' = got.patients
                /\ workers' = [workers EXCEPT ![w].pc = "commit",
                                              ![w].patient = got.id,
                                              ![w].patientName = got.patients[got.id].patientName,
                                              ![w].patientPhone = got.patients[got.id].patientPhone]
    /\ UNCHANGED <<workingHours, appointments, auditLog, slotCase, response>>

BookCommit(w) ==
    /\ workers[w].pc = "commit"
    /\ Len(appointments) < MaxAppts
    /\ Len(auditLog) < MaxAudit
    /\ LET me == workers[w]
           id == Len(appointments) + 1
       IN  /\ appointments' = Append(appointments,
                   AppointmentRow(me.patient, me.checked.doctor, me.patientName,
                                  me.patientPhone, me.checked.startTime,
                                  me.checked.endTime, "BOOKED"))
           /\ auditLog' = Append(auditLog, AuditRow("BOOK", id, me.patient, me.checked.doctor))
    /\ workers' = [workers EXCEPT ![w] = IdleWorker]
    /\ UNCHANGED <<workingHours, patients, slotCase, response>>

NextConc == \E w \in Workers : BookBegin(w) \/ BookPatient(w) \/ BookCommit(w)

SpecConc == Init /\ [][NextConc]_vars

---------------------------------------------------------------------------
(* cancelAppointmentLogic and rescheduleAppointmentLogic served             *)
(* concurrently.  Neither opens a transaction and neither locks the row:    *)
(* every query and every save is a statement of its own, committed at once, *)
(* and between two statements of one handler the other handler may run.     *)
(* A handler works on the Appointment object it read at the start; save     *)
(* writes the fields named in update_fields from that object.               *)

RaceCancelArgs == [appointmentId : 1 .. MaxAppts]
RaceRescheduleArgs ==
    [appointmentId : 1 .. MaxAppts, newStartTime : FaultTimes,
     durationMinutes : FaultDurations]

(* rescheduleAppointmentLogic from the row it read up to the working-hours  *)
(* test, before the conflict query                                          *)
rescheduleChecksBeforeConflict(args, appointment) ==
    LET parsed == parseIsoDatetime(args.newStartTime)
        newStart == parsed.value
        newEnd == newStart + toDuration(args.durationMinutes)
        doctor == appointment.doctor
        workingIntervals == getWorkingWindowForDoctor(doctor, dateOf(newStart))
    IN  IF ~parsed.ok THEN Rejected("invalidDatetime")
        ELSE IF appointment.status = "CANCELLED" THEN Rejected("cancelled")
        ELSE IF Len(workingIntervals) = 0 THEN Rejected("notWorking")
        ELSE IF ~insideWorkingTime(workingIntervals, newStart, newEnd)
             THEN Rejected("outsideHours")
        ELSE Checked("ok", args.appointmentId, doctor, newStart, newEnd)

(* Lines 217-237: read the row, return when it is missing or CANCELLED *)
CancelRead(w) ==
    /\ workers[w].pc = "idle"
    /\ \E args \in RaceCancelArgs :
        LET c == cancelChecks(args)
        IN  IF c.result /= "ok"
            THEN UNCHANGED workers
            ELSE workers' = [workers EXCEPT ![w] =
                     [pc |-> "cancelSave",
                      checked |-> Checked("ok", args.appointmentId,
                                          appointments[args.appointmentId].doctor, 0, 0),
                      patientName |-> "", patientPhone |-> "",
                      patient |-> appointments[args.appointmentId].patient]]
    /\ UNCHANGED <<workingHours, store, slotCase, response>>

(* Lines 239-240: save(update_fields=["status", "updatedAt"]) *)
CancelSave(w) ==
    /\ workers[w].pc = "cancelSave"
    /\ appointments' = [appointments EXCEPT
           ![workers[w].checked.appointmentId].status = "CANCELLED"]
    /\ workers' = [workers EXCEPT ![w].pc = "cancelAudit"]
    /\ UNCHANGED <<workingHours, patients, auditLog, slotCase, response>>

(* Lines 242-254: the CANCEL entry, then the handler returns success *)
CancelAudit(w) ==
    /\ workers[w].pc = "cancelAudit"
    /\ Len(auditLog) < MaxAudit
    /\ auditLog' = Append(auditLog,
           AuditRow("CANCEL", workers[w].checked.appointmentId, workers[w].patient,
                    workers[w].checked.doctor))
    /\ workers' = [workers EXCEPT ![w] = IdleWorker]
    /\ UNCHANGED <<workingHours, patients, appointments, slotCase, response>>

(* Lines 258-316: read the row, test its status and the working hours *)
RescheduleRead(w) ==
    /\ workers[w].pc = "idle"
    /\ \E args \in RaceRescheduleArgs :
        LET c == IF args.appointmentId \in AppointmentIds
                 THEN rescheduleChecksBeforeConflict(args, appointments[args.appointmentId])
                 ELSE Rejected("notFound")
        IN  IF c.result /= "ok"
            THEN UNCHANGED workers
            ELSE workers' = [workers EXCEPT ![w] =
                     [pc |-> "rescheduleConflict", checked |-> c,
                      patientName |-> "", patientPhone |-> "",
                      patient |-> appointments[args.appointmentId].patient]]
    /\ UNCHANGED <<workingHours, store, slotCase, response>>

(* Lines 318-322: the conflict query *)
RescheduleConflict(w) ==
    /\ workers[w].pc = "rescheduleConflict"
    /\ LET c == workers[w].checked
       IN  IF doctorHasConflict(c.doctor, c.startTime, c.endTime, c.appointmentId)
           THEN workers' = [workers EXCEPT ![w] = IdleWorker]
           ELSE workers' = [workers EXCEPT ![w].pc = "rescheduleSave"]
    /\ UNCHANGED <<workingHours, store, slotCase, response>>

(* Lines 324-327: save(update_fields=["startTime", "endTime", "status",     *)
(* "updatedAt"])                                                            *)
RescheduleSave(w) ==
    /\ workers[w].pc = "rescheduleSave"
    /\ LET c == workers[w].checked
       IN  appointments' = [appointments EXCEPT ![c.appointmentId].startTime = c.startTime,
                                                ![c.appointmentId].endTime = c.endTime,
                                                ![c.appointmentId].status = "BOOKED"]
    /\ workers' = [workers EXCEPT ![w].pc = "rescheduleAudit"]
    /\ UNCHANGED <<workingHours, patients, auditLog, slotCase, response>>

(* Lines 329-345: the RESCHEDULE entry, then the handler returns success *)
RescheduleAudit(w) ==
    /\ workers[w].pc = "rescheduleAudit"
    /\ Len(auditLog) < MaxAudit
    /\ auditLog' = Append(auditLog,
           AuditRow("RESCHEDULE", workers[w].checked.appointmentId, workers[w].patient,
                    workers[w].checked.doctor))
    /\ workers' = [workers EXCEPT ![w] = IdleWorker]
    /\ UNCHANGED <<workingHours, patients, appointments, slotCase, response>>

NextRace ==
    \E w \in Workers :
        \/ CancelRead(w) \/ CancelSave(w) \/ CancelAudit(w)
        \/ RescheduleRead(w) \/ RescheduleConflict(w) \/ RescheduleSave(w)
        \/ RescheduleAudit(w)

SpecRace == Init /\ [][NextRace]_vars

(* Cancel requests only, served concurrently *)
NextCancelRace == \E w \in Workers : CancelRead(w) \/ CancelSave(w) \/ CancelAudit(w)

SpecCancelRace == Init /\ [][NextCancelRace]_vars

---------------------------------------------------------------------------
(* buildFreeSlots applied to a working window, busy intervals in ascending  *)
(* start order and a duration                                               *)

MaxSlotTime == 5
MaxBusy == 2
MaxSlotDuration == 2

SlotIntervals == { iv \in (0 .. MaxSlotTime) \X (0 .. MaxSlotTime) : iv[1] < iv[2] }

BusyLists ==
    { b \in UNION { [1 .. n -> SlotIntervals] : n \in 0 .. MaxBusy } :
        \A i \in 1 .. Len(b) - 1 : b[i][1] <= b[i + 1][1] }

InitSlots ==
    /\ workingHours = << >>
    /\ patients = << >>
    /\ appointments = << >>
    /\ auditLog = << >>
    /\ workers = [w \in Workers |-> IdleWorker]
    /\ response = NoResponse
    /\ \E window \in SlotIntervals : \E busy \in BusyLists : \E dur \in 1 .. MaxSlotDuration :
        slotCase = [dayStart |-> window[1], dayEnd |-> window[2], busyIntervals |-> busy,
                    durationMinutes |-> dur, done |-> FALSE,
                    out |-> [raised |-> FALSE, freeSlots |-> << >>]]

ApplyFreeSlots ==
    /\ ~slotCase.done
    /\ slotCase' = [slotCase EXCEPT
           !.done = TRUE,
           !.out = buildFreeSlots(slotCase.dayStart, slotCase.dayEnd,
                                  slotCase.busyIntervals, slotCase.durationMinutes)]
    /\ UNCHANGED <<workingHours, store, workers, response>>

NextSlots == ApplyFreeSlots

SpecSlots == InitSlots /\ [][NextSlots]_vars

---------------------------------------------------------------------------
(* API.post: the request is decoded, handed to the handler of its function  *)
(* and the handler's result dict is answered with status 200 when           *)
(* result["success"] is true and 400 otherwise.  post catches no exception  *)
(* of a handler: one that leaves the handler leaves post as well, and the   *)
(* framework answers 500 with no result dict.                                *)

JsonResponse(functionName, kind, appointmentId) ==
    [functionName |-> functionName, kind |-> kind,
     success |-> kind \in {"ok", "already"},
     httpStatus |-> IF kind = "raised" THEN 500
                    ELSE IF kind \in {"ok", "already"} THEN 200 ELSE 400,
     appointmentId |-> appointmentId]

(* How bookAppointmentLogic ends: the error of its checks, "raised" when    *)
(* getOrCreatePatient raises, "ok" otherwise                                *)
bookOutcome(args) ==
    LET c == bookChecks(args)
    IN  IF c.result = "ok"
           /\ getOrCreatePatient(patients, args.patientName, args.patientPhone).raised
        THEN "raised"
        ELSE c.result

PostNames == {"Ann", "Bob"}
PostPhones == {"", "555"}
PostTimes == { isoformat(t) : t \in 0 .. (DayLen - 2) } \cup { << 1, 0 >> }

(* Requests that can pass the checks, and one request for each way of       *)
(* failing validation: no patientName, no startTime, a startTime that is no *)
(* ISO datetime, a specialty no doctor has                                  *)
PostBookArgs ==
    { BookRequest(n, ph, << "Dr Sarah", "" >>, st, dur) :
        n \in PostNames, ph \in PostPhones, st \in PostTimes, dur \in FaultDurations }
    \cup { BookRequest("", "555", << "Dr Sarah", "" >>, << 0, 0 >>, << >>),
           BookRequest("Ann", "555", << "Dr Sarah", "" >>, << >>, << >>),
           BookRequest("Ann", "555", << "Dr Sarah", "" >>, << 0 >>, << >>),
           BookRequest("Ann", "555", << "", "Dermatology" >>, << 0, 0 >>, << >>) }

PostRescheduleArgs ==
    [appointmentId : 1 .. MaxAppts, newStartTime : PostTimes, durationMinutes : FaultDurations]
    \cup [appointmentId : {0, MaxAppts + 1}, newStartTime : {<< 0, 0 >>},
           durationMinutes : {<< >>}]
    \cup [appointmentId : {1}, newStartTime : {<< >>, << 0 >>}, durationMinutes : {<< >>}]

PostSlotsArgs ==
    { SlotsRequest(q, date, dur) :
        q \in { << "Dr Sarah", "" >>, << "", "Dermatology" >> },
        date \in { << >>, << 0 >>, << 0, 0 >> }, dur \in FaultDurations }

(* Request bodies that reach no handler: no JSON, JSON that is no object,   *)
(* an object without "function", an object naming no known function        *)
OtherRequests == {"unparsable", "array", "noFunction", "unknownFunction"}

PostBook ==
    \E args \in PostBookArgs :
        /\ bookAppointmentLogic(args, FALSE)
        /\ response' = JsonResponse("bookAppointment", bookOutcome(args),
                            IF bookOutcome(args) = "ok" THEN Len(appointments) + 1 ELSE 0)

PostCancel ==
    \E args \in CancelArgs :
        /\ cancelAppointmentLogic(args, FALSE)
        /\ response' = JsonResponse("cancelAppointment", cancelChecks(args).result,
                            cancelChecks(args).appointmentId)

PostReschedule ==
    \E args \in PostRescheduleArgs :
        /\ rescheduleAppointmentLogic(args, FALSE)
        /\ response' = JsonResponse("rescheduleAppointment", rescheduleChecks(args).result,
                            rescheduleChecks(args).appointmentId)

PostGetSlots ==
    \E args \in PostSlotsArgs :
        /\ getAvailableSlotsLogic(args, FALSE)
        /\ response' = JsonResponse("getAvailableSlots", slotsChecks(args).result, 0)

PostOther ==
    \E body \in OtherRequests :
        /\ response' = JsonResponse("",
                            IF body = "array" THEN "raised"
                            ELSE IF body = "unparsable" THEN "invalidJson"
                            ELSE body, 0)
        /\ UNCHANGED <<workingHours, store, workers, slotCase>>

(* The demo appointment in any status but CANCELLED *)
PostSeedAppointments ==
    { << >> } \cup
    { << AppointmentRow(1, 1, "Ann", "555", 1, 1 + DefaultDuration, st) >> :
        st \in {"BOOKED", "COMPLETED", "RESCHEDULED"} }

InitPost ==
    /\ workingHours \in WorkingConfigs
    /\ patients = << PatientRow("Ann", "555") >>
    /\ appointments \in PostSeedAppointments
    /\ auditLog = << >>
    /\ workers = [w \in Workers |-> IdleWorker]
    /\ slotCase = NoCase
    /\ response = NoResponse

NextPost == PostBook \/ PostCancel \/ PostReschedule \/ PostGetSlots \/ PostOther

SpecPost == InitPost /\ [][NextPost]_vars

---------------------------------------------------------------------------
(* pickDoctor applied to a Doctor table, a doctorName and a specialty       *)

(* Rows of create_dummy_data: two doctors share the specialty General *)
DoctorRows == { [name |-> "Dr Sarah", specialty |-> "General"],
                [name |-> "Dr Ali", specialty |-> "Cardiology"],
                [name |-> "Dr Omar", specialty |-> "General"] }

MaxDoctors == 2

DoctorTables == UNION { [1 .. n -> DoctorRows] : n \in 0 .. MaxDoctors }

DoctorNameArgs == {"", "Dr Sarah", "Dr Ali", "Dr Who"}
SpecialtyArgs == {"", "General", "Cardiology", "Dermatology"}

InitPick ==
    /\ workingHours = << >>
    /\ patients = << >>
    /\ appointments = << >>
    /\ auditLog = << >>
    /\ workers = [w \in Workers |-> IdleWorker]
    /\ response = NoResponse
    /\ \E doctors \in DoctorTables : \E n \in DoctorNameArgs : \E sp \in SpecialtyArgs :
        slotCase = [doctors |-> doctors, doctorName |-> n, specialty |-> sp,
                    done |-> FALSE, out |-> 0]

ApplyPickDoctor ==
    /\ ~slotCase.done
    /\ slotCase' = [slotCase EXCEPT
           !.done = TRUE,
           !.out = pickDoctorIn(slotCase.doctors, slotCase.doctorName, slotCase.specialty)]
    /\ UNCHANGED <<workingHours, store, workers, response>>

NextPick == ApplyPickDoctor

SpecPick == InitPick /\ [][NextPick]_vars

---------------------------------------------------------------------------
(* Vocabulary of the properties *)

(* Half-open intervals [s1, e1) and [s2, e2) overlap *)
Overlap(s1, e1, s2, e2) == s1 < e2 /\ s2 < e1

(* Every instant of [s, e) lies in [ws, we) *)
Within(s, e, ws, we) == \A t \in s .. (e - 1) : ws <= t /\ t < we

Booked(a) == appointments[a].status = "BOOKED"

AuditEntries(type, a) ==
    { i \in 1 .. Len(auditLog) :
        auditLog[i].actionType = type /\ auditLog[i].appointment = a }

(* The appointment was created or moved by a handler *)
EngineScheduled(a) == AuditEntries("BOOK", a) \cup AuditEntries("RESCHEDULE", a) /= {}

(* A DoctorWorkingHours row of the doctor for the weekday of the date of s  *)
(* whose interval on that date holds all of [s, e)                          *)
InOneWorkingInterval(doctor, s, e) ==
    \E i \in 1 .. Len(workingHours) :
        LET r == workingHours[i]
        IN  /\ r.doctor = doctor
            /\ r.dayOfWeek = weekday(dateOf(s))
            /\ Within(s, e, combine(dateOf(s), r.startTime), combine(dateOf(s), r.endTime))

(* The slots of the gaps met from position g on: one slot [g, g + dur) for  *)
(* each gap that starts at g, ends at the next busy start or at dayEnd and  *)
(* is at least dur long                                                     *)
RECURSIVE SlotPerGap(_, _, _, _, _)
SlotPerGap(busy, i, g, dayEnd, dur) ==
    IF i > Len(busy)
    THEN IF dayEnd > g /\ dayEnd - g >= dur THEN << Slot(g, g + dur) >> ELSE << >>
    ELSE (IF busy[i][1] > g /\ busy[i][1] - g >= dur THEN << Slot(g, g + dur) >> ELSE << >>)
         \o SlotPerGap(busy, i + 1, IF busy[i][2] > g THEN busy[i][2] ELSE g, dayEnd, dur)

---------------------------------------------------------------------------
(* C1: with requests served one at a time, no two distinct BOOKED           *)
(* appointments of the same doctor have overlapping intervals               *)
(* [startTime, endTime).                                                    *)
C1_NoDoubleBooking ==
    \A a \in AppointmentIds : \A b \in AppointmentIds :
        (a /= b /\ Booked(a) /\ Booked(b)
            /\ appointments[a].doctor = appointments[b].doctor)
        => ~Overlap(appointments[a].startTime, appointments[a].endTime,
                    appointments[b].startTime, appointments[b].endTime)

(* Two BOOKED appointments of one doctor that touch, one booked and one     *)
(* moved by the handlers                                                    *)
C1_Witness ==
    \E a \in AppointmentIds : \E b \in AppointmentIds :
        /\ a /= b /\ Booked(a) /\ Booked(b)
        /\ appointments[a].doctor = appointments[b].doctor
        /\ appointments[a].endTime = appointments[b].startTime
        /\ appointments[a].startTime < appointments[a].endTime
        /\ AuditEntries("BOOK", b) /= {}
        /\ AuditEntries("RESCHEDULE", a) /= {}

---------------------------------------------------------------------------
(* C3: book and reschedule accept a request only if all of its interval     *)
(* [startTime, startTime + durationMinutes) lies in one working interval of *)
(* the doctor on the weekday of startTime, so every appointment a handler   *)
(* scheduled and that is BOOKED lies in one working interval of its doctor. *)
C3_InsideWorkingHours ==
    /\ \A args \in BookArgs :
        bookChecks(args).result = "ok"
        => LET s == parseIsoDatetime(args.startTime).value
           IN  InOneWorkingInterval(pickDoctor(args.doctorName, args.specialty),
                                    s, s + toDuration(args.durationMinutes))
    /\ \A args \in RescheduleArgs :
        rescheduleChecks(args).result = "ok"
        => LET s == parseIsoDatetime(args.newStartTime).value
           IN  InOneWorkingInterval(appointments[args.appointmentId].doctor,
                                    s, s + toDuration(args.durationMinutes))
    /\ \A a \in AppointmentIds :
        (Booked(a) /\ EngineScheduled(a))
        => InOneWorkingInterval(appointments[a].doctor, appointments[a].startTime,
                                appointments[a].endTime)

(* A request that starts in a working interval and runs past its end is     *)
(* answered "outside working hours", while an appointment the handlers      *)
(* scheduled is BOOKED                                                      *)
C3_Witness ==
    /\ \E a \in AppointmentIds :
        Booked(a) /\ EngineScheduled(a) /\ appointments[a].startTime < appointments[a].endTime
    /\ \E args \in BookArgs :
        LET s == parseIsoDatetime(args.startTime).value
            d == pickDoctor(args.doctorName, args.specialty)
        IN  /\ bookChecks(args).result = "outsideHours"
            /\ toDuration(args.durationMinutes) > 0
            /\ InOneWorkingInterval(d, s, s + 1)
            /\ ~InOneWorkingInterval(d, s, s + toDuration(args.durationMinutes))

---------------------------------------------------------------------------
(* C4: CANCELLED is terminal.  With requests served one at a time, no step  *)
(* changes the status, startTime or endTime of an appointment that is       *)
(* CANCELLED, and a reschedule of a CANCELLED appointment is rejected.      *)
C4_CancelledIsTerminal ==
    /\ [][ \A a \in AppointmentIds :
              appointments[a].status = "CANCELLED"
              => /\ a \in 1 .. Len(appointments')
                 /\ appointments'[a].status = "CANCELLED"
                 /\ appointments'[a].startTime = appointments[a].startTime
                 /\ appointments'[a].endTime = appointments[a].endTime ]_vars
    /\ [] \A args \in RescheduleArgs :
              (args.appointmentId \in AppointmentIds
                  /\ appointments[args.appointmentId].status = "CANCELLED")
              => rescheduleChecks(args).result \notin {"ok", "already"}

(* A CANCELLED appointment after whose cancellation a further request was   *)
(* served (it left a later audit entry)                                     *)
C4_Witness ==
    \E a \in AppointmentIds :
        /\ appointments[a].status = "CANCELLED"
        /\ \E i \in AuditEntries("CANCEL", a) : \E j \in 1 .. Len(auditLog) : j > i

---------------------------------------------------------------------------
(* C5: cancel is idempotent.  Every cancel of an existing appointment is    *)
(* answered with success, an appointment that was cancelled stays           *)
(* CANCELLED, and however often it is cancelled the audit log holds exactly *)
(* one CANCEL entry for it.                                                 *)
C5_CancelIdempotent ==
    \A a \in AppointmentIds :
        /\ cancelChecks([appointmentId |-> a]).result \in {"ok", "already"}
        /\ Cardinality(AuditEntries("CANCEL", a)) <= 1
        /\ appointments[a].status = "CANCELLED"
           <=> Cardinality(AuditEntries("CANCEL", a)) = 1
        /\ appointments[a].status = "CANCELLED"
           => cancelChecks([appointmentId |-> a]).result = "already"

(* A cancelled appointment, with room left in the audit log, for which a    *)
(* further cancel is answered with success                                  *)
C5_Witness ==
    \E a \in AppointmentIds :
        /\ appointments[a].status = "CANCELLED"
        /\ Cardinality(AuditEntries("CANCEL", a)) = 1
        /\ Len(auditLog) < MaxAudit
        /\ cancelChecks([appointmentId |-> a]).result = "already"

---------------------------------------------------------------------------
(* C6: doctorHasConflict(doctor, [s, e), excludeId) is true exactly when a  *)
(* BOOKED appointment of that doctor, other than excludeId, has             *)
(* startTime < e and s < endTime.                                           *)
C6_ConflictIffOverlap ==
    \A d \in DoctorIds : \A s \in Times : \A e \in Times : \A x \in 0 .. MaxAppts :
        doctorHasConflict(d, s, e, x)
        <=> \E a \in AppointmentIds :
                /\ Booked(a)
                /\ appointments[a].doctor = d
                /\ a /= x
                /\ appointments[a].startTime < e
                /\ s < appointments[a].endTime

(* A BOOKED appointment that conflicts with its own interval, but not with  *)
(* a candidate touching it at either end, not when it is the excluded one,  *)
(* not for another doctor; and a CANCELLED one in the way of nothing        *)
C6_Witness ==
    \E a \in AppointmentIds : \E b \in AppointmentIds :
        LET d == appointments[a].doctor
            s == appointments[a].startTime
            e == appointments[a].endTime
        IN  /\ Booked(a) /\ s < e /\ s > 0
            /\ appointments[b].status = "CANCELLED"
            /\ doctorHasConflict(d, s, e, 0)
            /\ ~doctorHasConflict(d, e, e + 1, 0)
            /\ ~doctorHasConflict(d, s - 1, s, 0)
            /\ ~doctorHasConflict(d, s, e, a)
            /\ \E d2 \in DoctorIds : d2 /= d /\ ~doctorHasConflict(d2, s, e, 0)
            /\ ~doctorHasConflict(appointments[b].doctor, appointments[b].startTime,
                                  appointments[b].endTime, a)

---------------------------------------------------------------------------
(* C7: reschedule excludes the appointment itself, and only it, from the    *)
(* conflict check: a reschedule of a BOOKED appointment to an interval of   *)
(* positive length is accepted exactly when the interval lies in one        *)
(* working interval and overlaps no other BOOKED appointment of the doctor, *)
(* whether or not it overlaps the appointment's own current interval.       *)
C7_SelfExclusion ==
    \A args \in RescheduleArgs :
        LET id == args.appointmentId
            s == parseIsoDatetime(args.newStartTime).value
            e == s + toDuration(args.durationMinutes)
        IN  (id \in AppointmentIds /\ Booked(id)
                /\ parseIsoDatetime(args.newStartTime).ok /\ s < e)
            => ( rescheduleChecks(args).result = "ok"
                 <=> /\ InOneWorkingInterval(appointments[id].doctor, s, e)
                     /\ ~\E b \in AppointmentIds :
                            /\ b /= id /\ Booked(b)
                            /\ appointments[b].doctor = appointments[id].doctor
                            /\ Overlap(appointments[b].startTime, appointments[b].endTime, s, e) )

(* A BOOKED appointment that was rescheduled, next to another BOOKED one of *)
(* the doctor, for which a move to an interval overlapping its current one  *)
(* is accepted                                                              *)
C7_Witness ==
    \E args \in RescheduleArgs : \E b \in AppointmentIds :
        LET id == args.appointmentId
            s == parseIsoDatetime(args.newStartTime).value
            e == s + toDuration(args.durationMinutes)
        IN  /\ id \in AppointmentIds /\ Booked(id) /\ b /= id /\ Booked(b)
            /\ appointments[b].doctor = appointments[id].doctor
            /\ AuditEntries("RESCHEDULE", id) /= {}
            /\ parseIsoDatetime(args.newStartTime).ok /\ s < e
            /\ s /= appointments[id].startTime
            /\ Overlap(appointments[id].startTime, appointments[id].endTime, s, e)
            /\ rescheduleChecks(args).result = "ok"

---------------------------------------------------------------------------
(* C9: every slot getAvailableSlots returns is bookable: it lies in one     *)
(* working interval of the doctor on the date, overlaps no BOOKED           *)
(* appointment of the doctor, and a book request for that doctor, the       *)
(* slot's start and the duration is accepted.                               *)
C9_SlotsBookable ==
    \A args \in SlotsArgs :
        LET c == slotsChecks(args)
            dur == toDuration(args.durationMinutes)
        IN  c.result = "ok"
            => \A i \in 1 .. Len(c.slots) :
                 LET s == parseIsoDatetime(c.slots[i].startTime).value
                     e == parseIsoDatetime(c.slots[i].endTime).value
                 IN  /\ InOneWorkingInterval(c.doctor, s, e)
                     /\ ~\E a \in AppointmentIds :
                            /\ Booked(a)
                            /\ appointments[a].doctor = c.doctor
                            /\ Overlap(appointments[a].startTime, appointments[a].endTime, s, e)
                     /\ bookChecks(BookRequest("Ann", "555",
                                   << Doctor[c.doctor].name, Doctor[c.doctor].specialty >>,
                                   c.slots[i].startTime, << dur >>)).result = "ok"

---------------------------------------------------------------------------
(* C2: two book requests for one doctor and overlapping intervals that run  *)
(* concurrently do not both commit: no two BOOKED appointments that book    *)
(* created for the same doctor overlap.                                     *)
C2_AtMostOneCommits ==
    \A a \in AppointmentIds : \A b \in AppointmentIds :
        (a /= b /\ AuditEntries("BOOK", a) /= {} /\ AuditEntries("BOOK", b) /= {}
            /\ Booked(a) /\ Booked(b)
            /\ appointments[a].doctor = appointments[b].doctor)
        => ~Overlap(appointments[a].startTime, appointments[a].endTime,
                    appointments[b].startTime, appointments[b].endTime)

---------------------------------------------------------------------------
(* C8: for busy intervals in ascending start order, buildFreeSlots returns, *)
(* in order, one slot [g, g + durationMinutes) for each gap that starts at  *)
(* g (the window start or the end of the busy time swept so far), ends at   *)
(* the next busy start or the window end and is at least durationMinutes    *)
(* long, and nothing else.                                                  *)
C8_OneSlotPerGap ==
    slotCase.done
    => /\ ~slotCase.out.raised
       /\ slotCase.out.freeSlots =
            SlotPerGap(slotCase.busyIntervals, 1, slotCase.dayStart, slotCase.dayEnd,
                       slotCase.durationMinutes)

---------------------------------------------------------------------------
(* C10: the appointment write of book, cancel and reschedule commits        *)
(* together with its audit entry or not at all: every step that creates or  *)
(* changes an appointment appends the matching BOOK, CANCEL or RESCHEDULE   *)
(* entry for it.                                                            *)
C10_WriteWithAudit ==
    [][ \A a \in 1 .. Len(appointments') :
          (a \notin AppointmentIds \/ appointments'[a] /= appointments[a])
          => /\ Len(auditLog') = Len(auditLog) + 1
             /\ auditLog'[Len(auditLog')].appointment = a
             /\ auditLog'[Len(auditLog')].actionType =
                  IF a \notin AppointmentIds THEN "BOOK"
                  ELSE IF appointments'[a].status = "CANCELLED" THEN "CANCEL"
                  ELSE "RESCHEDULE" ]_vars

---------------------------------------------------------------------------
(* C11: every error path leaves the state unchanged: a request that is      *)
(* answered with success = false leaves the Patient, Appointment and        *)
(* AuditLog tables exactly as they were.                                    *)
C11_ErrorLeavesStore ==
    [][ ~response'.success => store' = store ]_vars

(* A booking was made and a later request was rejected for a conflict *)
C11_Witness ==
    /\ response.kind = "conflict"
    /\ ~response.success
    /\ AuditEntries("BOOK", Len(appointments)) /= {}

---------------------------------------------------------------------------
(* C12: every appointment that book created or reschedule moved has         *)
(* startTime < endTime, whatever durationMinutes the request supplied.      *)
C12_StartBeforeEnd ==
    \A a \in AppointmentIds :
        EngineScheduled(a) => appointments[a].startTime < appointments[a].endTime

---------------------------------------------------------------------------
(* The durationMinutes argument that asks for n ticks *)
DurationArgOf(n) == IF n = DefaultDuration THEN << >> ELSE << n >>

(* No BOOKED appointment of the doctor other than x overlaps [s, e) *)
FreeOfBooked(doctor, s, e, x) ==
    \A b \in AppointmentIds :
        (b /= x /\ Booked(b) /\ appointments[b].doctor = doctor)
        => ~Overlap(appointments[b].startTime, appointments[b].endTime, s, e)

(* C13: only BOOKED appointments block time.  For a CANCELLED appointment   *)
(* whose interval lies in a working interval of its doctor: a book request  *)
(* for that doctor and interval is accepted if no BOOKED appointment of the *)
(* doctor overlaps it; a reschedule of another appointment of the doctor to *)
(* that interval is accepted if no other BOOKED appointment overlaps it;    *)
(* and getAvailableSlots counts no appointment that is not BOOKED as busy:  *)
(* when no BOOKED appointment of the doctor starts on the date, it returns  *)
(* the slot at the start of every working interval that is long enough.     *)
C13_OnlyBookedBlocks ==
    \A a \in AppointmentIds :
        LET d == appointments[a].doctor
            s == appointments[a].startTime
            e == appointments[a].endTime
            dur == DurationArgOf(e - s)
            query == << Doctor[d].name, Doctor[d].specialty >>
            slots == slotsChecks(SlotsRequest(query, << dateOf(s), 0 >>, dur))
            working == getWorkingWindowForDoctor(d, dateOf(s))
        IN  (appointments[a].status = "CANCELLED" /\ s < e /\ InOneWorkingInterval(d, s, e))
            => /\ FreeOfBooked(d, s, e, 0)
                  => bookChecks(BookRequest("Ann", "555", query, isoformat(s), dur)).result = "ok"
               /\ \A b \in AppointmentIds :
                     (b /= a /\ appointments[b].doctor = d
                         /\ appointments[b].status /= "CANCELLED" /\ FreeOfBooked(d, s, e, b))
                     => rescheduleChecks([appointmentId |-> b, newStartTime |-> isoformat(s),
                                          durationMinutes |-> dur]).result = "ok"
               /\ \A i \in 1 .. Len(busyAppointments(d, dateOf(s))) :
                     Booked(busyAppointments(d, dateOf(s))[i])
               /\ (\A b \in AppointmentIds :
                        (Booked(b) /\ appointments[b].doctor = d)
                        => dateOf(appointments[b].startTime) /= dateOf(s))
                  => /\ slots.result = "ok"
                     /\ \A i \in 1 .. Len(working) :
                           working[i][2] - working[i][1] >= e - s
                           => \E j \in 1 .. Len(slots.slots) :
                                  slots.slots[j] = Slot(working[i][1], working[i][1] + (e - s))

(* An appointment that was booked and then cancelled, in working hours,     *)
(* next to a BOOKED appointment of the doctor that can be moved onto its    *)
(* interval, which can also be booked again                                 *)
C13_Witness ==
    \E a \in AppointmentIds : \E b \in AppointmentIds :
        LET d == appointments[a].doctor
            s == appointments[a].startTime
            e == appointments[a].endTime
        IN  /\ appointments[a].status = "CANCELLED"
            /\ AuditEntries("CANCEL", a) /= {}
            /\ s < e /\ InOneWorkingInterval(d, s, e)
            /\ b /= a /\ Booked(b) /\ appointments[b].doctor = d
            /\ FreeOfBooked(d, s, e, 0)
            /\ bookChecks(BookRequest("Ann", "555", << Doctor[d].name, Doctor[d].specialty >>,
                                      isoformat(s), DurationArgOf(e - s))).result = "ok"
            /\ rescheduleChecks([appointmentId |-> b, newStartTime |-> isoformat(s),
                                 durationMinutes |-> DurationArgOf(e - s)]).result = "ok"

---------------------------------------------------------------------------
(* The appointments book created for the phone *)
BookedWithPhone(phone) ==
    { a \in AppointmentIds :
        AuditEntries("BOOK", a) /= {} /\ appointments[a].patientPhone = phone }

(* C14: patient identity merge.  No two Patient rows have the same phone; a *)
(* booking that supplies a phone and is accepted leaves exactly one row for *)
(* that phone, holding the supplied name, and changes no other row; the row *)
(* of a phone holds the name of the latest appointment booked with that     *)
(* phone; and no step changes the patient, patientName or patientPhone of   *)
(* an appointment that exists.                                              *)
C14_PatientMerge ==
    /\ [] \A i \in 1 .. Len(patients) : \A j \in 1 .. Len(patients) :
              patients[i].patientPhone = patients[j].patientPhone => i = j
    /\ [] \A args \in PostBookArgs :
              (args.patientPhone /= "" /\ bookOutcome(args) = "ok")
              => LET got == getOrCreatePatient(patients, args.patientName, args.patientPhone)
                 IN  /\ ~got.raised
                     /\ Cardinality(patientIdsByPhone(got.patients, args.patientPhone)) = 1
                     /\ got.patients[got.id] = PatientRow(args.patientName, args.patientPhone)
                     /\ Len(got.patients) \in {Len(patients), Len(patients) + 1}
                     /\ \A i \in 1 .. Len(patients) : i /= got.id => got.patients[i] = patients[i]
    /\ [] \A phone \in PostPhones \ {""} :
              BookedWithPhone(phone) /= {}
              => LET latest == CHOOSE a \in BookedWithPhone(phone) :
                                   \A b \in BookedWithPhone(phone) : b <= a
                 IN  /\ Cardinality(patientIdsByPhone(patients, phone)) = 1
                     /\ \A i \in patientIdsByPhone(patients, phone) :
                           /\ patients[i].patientName = appointments[latest].patientName
                           /\ appointments[latest].patient = i
    /\ [][ \A a \in AppointmentIds :
              /\ a \in 1 .. Len(appointments')
              /\ appointments'[a].patient = appointments[a].patient
              /\ appointments'[a].patientName = appointments[a].patientName
              /\ appointments'[a].patientPhone = appointments[a].patientPhone ]_vars

(* Two appointments booked with one phone under different names: one        *)
(* Patient row for the phone, holding the later name, the earlier           *)
(* appointment still holding the earlier name                               *)
C14_Witness ==
    \E a \in AppointmentIds : \E b \in AppointmentIds :
        /\ a < b
        /\ AuditEntries("BOOK", a) /= {} /\ AuditEntries("BOOK", b) /= {}
        /\ appointments[a].patientPhone = "555" /\ appointments[b].patientPhone = "555"
        /\ appointments[a].patientName /= appointments[b].patientName
        /\ appointments[a].patient = appointments[b].patient
        /\ patients[appointments[b].patient].patientName = appointments[b].patientName

---------------------------------------------------------------------------
(* C15: bookings without a phone permit duplicate "unknown" patients: every *)
(* book request without patientPhone that passes the checks succeeds and    *)
(* creates its own Patient row, with the placeholder phone made from the    *)
(* name, also when an earlier booking without phone gave the same name.     *)
C15_UnknownPatients ==
    \A args \in PostBookArgs :
        (args.patientPhone = "" /\ bookChecks(args).result = "ok")
        => LET got == getOrCreatePatient(patients, args.patientName, args.patientPhone)
           IN  /\ ~got.raised
               /\ got.id = Len(patients) + 1
               /\ got.patients[got.id]
                    = PatientRow(args.patientName, unknownPhone(args.patientName))

---------------------------------------------------------------------------
(* The step appends one entry of the type, for the appointment, and leaves  *)
(* the entries that exist as they are                                       *)
Appends(type, a) ==
    /\ Len(auditLog') = Len(auditLog) + 1
    /\ \A i \in 1 .. Len(auditLog) : auditLog'[i] = auditLog[i]
    /\ auditLog'[Len(auditLog')].actionType = type
    /\ auditLog'[Len(auditLog')].appointment = a

(* C16: the audit log is append-only and mirrors the operations.  No step   *)
(* changes or removes an entry; a successful book, reschedule and           *)
(* getAvailableSlots and a cancel that changes the appointment each append  *)
(* exactly one entry, of type BOOK, RESCHEDULE, GET_SLOTS and CANCEL; a     *)
(* getAvailableSlots changes no Appointment and no Patient row; and no      *)
(* other request appends anything.                                          *)
C16_AuditAppendOnly ==
    [][ LET fn == response'.functionName
            kind == response'.kind
            id == response'.appointmentId
        IN  /\ Len(auditLog') >= Len(auditLog)
            /\ \A i \in 1 .. Len(auditLog) : auditLog'[i] = auditLog[i]
            /\ (fn = "bookAppointment" /\ kind = "ok") => Appends("BOOK", id)
            /\ (fn = "rescheduleAppointment" /\ kind = "ok") => Appends("RESCHEDULE", id)
            /\ (fn = "cancelAppointment" /\ kind = "ok") => Appends("CANCEL", id)
            /\ (fn = "getAvailableSlots" /\ kind = "ok")
               => /\ Appends("GET_SLOTS", 0)
                  /\ appointments' = appointments
                  /\ patients' = patients
            /\ kind /= "ok" => auditLog' = auditLog ]_vars

(* getAvailableSlots has answered with success and its GET_SLOTS entry      *)
(* follows the CANCEL entry of an earlier request                           *)
C16_Witness ==
    /\ response.functionName = "getAvailableSlots"
    /\ response.success
    /\ Len(auditLog) = 2
    /\ auditLog[1].actionType = "CANCEL"
    /\ auditLog[2].actionType = "GET_SLOTS"

---------------------------------------------------------------------------
(* C17: doctor resolution.  If name and specialty are both given and a      *)
(* doctor matches both, such a doctor is chosen; else, if a doctor matches  *)
(* the given name, such a doctor is chosen; else, if a doctor matches the   *)
(* given specialty, such a doctor is chosen; and no doctor is found exactly *)
(* when none of these matches exists.                                       *)
C17_DoctorResolution ==
    slotCase.done
    => LET doctors == slotCase.doctors
           n == slotCase.doctorName
           sp == slotCase.specialty
           ids == 1 .. Len(doctors)
           byBoth == { d \in ids : n /= "" /\ sp /= ""
                                    /\ doctors[d].name = n /\ doctors[d].specialty = sp }
           byName == { d \in ids : n /= "" /\ doctors[d].name = n }
           bySpecialty == { d \in ids : sp /= "" /\ doctors[d].specialty = sp }
       IN  IF byBoth /= {} THEN slotCase.out \in byBoth
           ELSE IF byName /= {} THEN slotCase.out \in byName
           ELSE IF bySpecialty /= {} THEN slotCase.out \in bySpecialty
           ELSE slotCase.out = 0

---------------------------------------------------------------------------
(* C18: every request ends in a result with "success", answered with status *)
(* 200 exactly when success is true and with 400 otherwise; no request ends *)
(* in an exception that nothing handles.                                    *)
C18_AlwaysJsonResult ==
    response.kind /= "none"
    => /\ response.kind /= "raised"
       /\ response.httpStatus \in {200, 400}
       /\ response.httpStatus = 200 <=> response.success

---------------------------------------------------------------------------
(* C19: a successful reschedule of an appointment in any status but         *)
(* CANCELLED sets startTime to the new start, endTime to the new start plus *)
(* durationMinutes and status to BOOKED, and leaves the appointment's       *)
(* patient, doctor, patientName and patientPhone, and every other           *)
(* appointment, as they were; whether a reschedule is accepted does not     *)
(* depend on which status other than CANCELLED the appointment has.         *)
C19_RescheduleEffect ==
    /\ [][ (response'.functionName = "rescheduleAppointment" /\ response'.kind = "ok")
           => LET id == response'.appointmentId
              IN  /\ id \in AppointmentIds
                  /\ appointments[id].status /= "CANCELLED"
                  /\ patients' = patients
                  /\ \E args \in PostRescheduleArgs :
                        LET newStart == parseIsoDatetime(args.newStartTime).value
                        IN  /\ args.appointmentId = id
                            /\ rescheduleChecks(args).result = "ok"
                            /\ appointments' =
                                 [appointments EXCEPT
                                    ![id] = AppointmentRow(
                                        appointments[id].patient, appointments[id].doctor,
                                        appointments[id].patientName,
                                        appointments[id].patientPhone,
                                        newStart,
                                        newStart + toDuration(args.durationMinutes),
                                        "BOOKED")] ]_vars
    /\ [] \A args \in PostRescheduleArgs :
              (args.appointmentId \in AppointmentIds
                  /\ appointments[args.appointmentId].status /= "CANCELLED")
              => rescheduleChecksOf(args, appointments[args.appointmentId])
                   = rescheduleChecksOf(args,
                        [appointments[args.appointmentId] EXCEPT !.status = "BOOKED"])

(* A reschedule has just moved an appointment, and a COMPLETED appointment  *)
(* is in the table for which a reschedule is accepted as well               *)
C19_Witness ==
    /\ response.functionName = "rescheduleAppointment"
    /\ response.kind = "ok"
    /\ AuditEntries("RESCHEDULE", response.appointmentId) /= {}
    /\ \E args \in PostRescheduleArgs :
          /\ args.appointmentId \in AppointmentIds
          /\ appointments[args.appointmentId].status = "COMPLETED"
          /\ rescheduleChecks(args).result = "ok"

---------------------------------------------------------------------------
(* C20: when a cancel and a reschedule of one BOOKED appointment run        *)
(* concurrently, the appointment is not BOOKED in any state reached after   *)
(* the cancel has completed with success (its CANCEL entry is written).     *)
C20_CancelWins ==
    \A a \in AppointmentIds :
        AuditEntries("CANCEL", a) /= {} => appointments[a].status /= "BOOKED"

---------------------------------------------------------------------------
(* C21: when two cancels of one BOOKED appointment run concurrently, the    *)
(* audit log holds at most one CANCEL entry for the appointment, and        *)
(* exactly one once a cancel has completed.                                 *)
C21_OneCancelEntry ==
    \A a \in AppointmentIds :
        /\ Cardinality(AuditEntries("CANCEL", a)) <= 1
        /\ (appointments[a].status = "CANCELLED"
               /\ \A w \in Workers : workers[w].pc = "idle")
           => Cardinality(AuditEntries("CANCEL", a)) = 1

====
